---- MODULE Spec2Model ----
(***************************************************************************)
(* Model of app.py: the regional renewable-energy dashboard.               *)
(*                                                                         *)
(* The CSV file is a sequence of rows.  load_data derives the timestamp    *)
(* and its month/day/hour, drops the sentinel region and normalises the    *)
(* region names.  main is the script that the UI framework re-runs after   *)
(* every change of a widget: it reads the widgets, filters the dataset and *)
(* builds the three views.                                                 *)
(*                                                                         *)
(* TLA+ strings are ASCII, so the Korean literals of the source are        *)
(* written in Revised Romanization; each definition names its literal.     *)
(* Column names: trade_date = "거래일자", trade_hour_index = "거래시간",   *)
(* region = "지역", fuel_type = "연료원", volume_mwh = "전력거래량(MWh)",  *)
(* timestamp = "시간", month = "월", day = "일", hour = "시".              *)
(***************************************************************************)
EXTENDS Integers, Sequences, FiniteSets, TLC

VARIABLES
    raw,              \* the rows of DATA_CSV
    loaded,           \* TRUE once load_data has run (st.cache_data holds df)
    df,               \* the cached result of load_data
    month_options,    \* options shown by the month selectbox
    day_options,      \* options shown by the day selectbox, <<>> when not shown
    hour_options,     \* options shown by the hour selectbox, <<>> when not shown
    month_selected, day_selected, hour_selected, source_selected,
    dff,              \* the filtered subset
    df_map,           \* view (a)
    df_line,          \* view (b)
    anim_shown,       \* TRUE when the animation block ran
    df_anim           \* view (c), <<>> when the block did not run

vars == <<raw, loaded, df, month_options, day_options, hour_options,
          month_selected, day_selected, hour_selected, source_selected,
          dff, df_map, df_line, anim_shown, df_anim>>

-----------------------------------------------------------------------------
(* Literals of the source *)

HAPGYE == "hapgye"                \* "합계": the aggregate choice
TAEYANGGWANG == "taeyanggwang"    \* "태양광": solar
PUNGNYEOK == "pungnyeok"          \* "풍력": wind
YUKJI == "Yukji"                  \* "육지": the mainland sentinel

\* region_mapping: "서울시" -> "서울특별시", "부산시" -> "부산광역시",
\* "대구시" -> "대구광역시", "인천시" -> "인천광역시", "광주시" -> "광주광역시",
\* "대전시" -> "대전광역시", "울산시" -> "울산광역시",
\* "세종시" -> "세종특별자치시", "제주" and "제주도" -> "제주특별자치도".
region_mapping ==
    ("Seoul-si" :> "Seoul-teukbyeolsi") @@
    ("Busan-si" :> "Busan-gwangyeoksi") @@
    ("Daegu-si" :> "Daegu-gwangyeoksi") @@
    ("Incheon-si" :> "Incheon-gwangyeoksi") @@
    ("Gwangju-si" :> "Gwangju-gwangyeoksi") @@
    ("Daejeon-si" :> "Daejeon-gwangyeoksi") @@
    ("Ulsan-si" :> "Ulsan-gwangyeoksi") @@
    ("Sejong-si" :> "Sejong-teukbyeoljachisi") @@
    ("Jeju" :> "Jeju-teukbyeoljachido") @@
    ("Jeju-do" :> "Jeju-teukbyeoljachido")

\* The region strings in the order Python's sorted() gives them, which is the
\* code point order of the Korean originals ("경기도" < "광주광역시" < ... <
\* "육지" < "인천광역시" < ... < "제주특별자치도").  "Gyeonggi-do" ("경기도") is
\* a region name that region_mapping does not mention.
RegionOrder ==
    <<"Gyeonggi-do", "Gwangju-gwangyeoksi", "Gwangju-si", "Daegu-gwangyeoksi",
      "Daegu-si", "Daejeon-gwangyeoksi", "Daejeon-si", "Busan-gwangyeoksi",
      "Busan-si", "Seoul-si", "Seoul-teukbyeolsi", "Sejong-si",
      "Sejong-teukbyeoljachisi", "Ulsan-gwangyeoksi", "Ulsan-si", "Yukji",
      "Incheon-gwangyeoksi", "Incheon-si", "Jeju", "Jeju-do",
      "Jeju-teukbyeoljachido">>

-----------------------------------------------------------------------------
(* Sequences and sorting *)

Range(s) == {s[i] : i \in DOMAIN s}

RECURSIVE SumSeq(_)
SumSeq(s) == IF s = <<>> THEN 0 ELSE Head(s) + SumSeq(Tail(s))

RECURSIVE Flatten(_)
Flatten(ss) == IF ss = <<>> THEN <<>> ELSE Head(ss) \o Flatten(Tail(ss))

Min(S) == CHOOSE x \in S : \A y \in S : x <= y

\* sorted() of a set of integers
RECURSIVE SortedInts(_)
SortedInts(S) ==
    IF S = {} THEN <<>> ELSE <<Min(S)>> \o SortedInts(S \ {Min(S)})

\* sorted() of a set of region strings
SortedRegions(S) == SelectSeq(RegionOrder, LAMBDA r : r \in S)

\* str() and int() on the month, day and hour numbers
str(n) == ToString(n)
Decimal == [s \in {ToString(n) : n \in 0..31} |->
                CHOOSE n \in 0..31 : ToString(n) = s]
int(s) == Decimal[s]

-----------------------------------------------------------------------------
(* Timestamps: hours since 1970-01-01 00:00, the proleptic Gregorian       *)
(* calendar of pandas.                                                     *)

\* pd.to_datetime of a date: the civil date to days since the epoch
DaysFromCivil(y, m, d) ==
    LET yy  == IF m <= 2 THEN y - 1 ELSE y
        era == yy \div 400
        yoe == yy - era * 400
        mp  == IF m > 2 THEN m - 3 ELSE m + 9
        doy == (153 * mp + 2) \div 5 + d - 1
        doe == yoe * 365 + yoe \div 4 - yoe \div 100 + doy
    IN  era * 146097 + doe - 719468

\* .dt.month, .dt.day: days since the epoch to the civil date
CivilFromDays(z) ==
    LET zz  == z + 719468
        era == zz \div 146097
        doe == zz - era * 146097
        yoe == (doe - doe \div 1460 + doe \div 36524 - doe \div 146096) \div 365
        doy == doe - (365 * yoe + yoe \div 4 - yoe \div 100)
        mp  == (5 * doy + 2) \div 153
        d   == doy - (153 * mp + 2) \div 5 + 1
        m   == IF mp < 10 THEN mp + 3 ELSE mp - 9
        y   == yoe + era * 400 + (IF m <= 2 THEN 1 ELSE 0)
    IN  [year |-> y, month |-> m, day |-> d]

to_datetime(date) == 24 * DaysFromCivil(date.year, date.month, date.day)
to_timedelta(h) == h
dt_month(t) == CivilFromDays(t \div 24).month
dt_day(t) == CivilFromDays(t \div 24).day
dt_hour(t) == t % 24

-----------------------------------------------------------------------------
(* load_data *)

\* Variant: the region names are left as they are.
replace_nothing(v) == v

\* df["지역"].replace(region_mapping)
replace(v) == IF v \in DOMAIN region_mapping THEN region_mapping[v] ELSE v

\* Variant: the hour index is taken as 0-based.
timestamp_zero_based(date, hour_index) ==
    to_datetime(date) + to_timedelta(hour_index)

\* pd.to_datetime(df["거래일자"]) + pd.to_timedelta(df["거래시간"] - 1, unit="h")
timestamp_of(date, hour_index) ==
    to_datetime(date) + to_timedelta(hour_index - 1)

\* the four derived columns of one row
WithTimestamp(r) ==
    LET t == timestamp_of(r.trade_date, r.trade_hour_index)
    IN  [trade_date |-> r.trade_date, trade_hour_index |-> r.trade_hour_index,
         region |-> r.region, fuel_type |-> r.fuel_type,
         volume_mwh |-> r.volume_mwh,
         timestamp |-> t, month |-> dt_month(t), day |-> dt_day(t),
         hour |-> dt_hour(t)]

\* Variant: the sentinel rows are not dropped.
load_data_keep_sentinel(csv) ==
    LET timed == [i \in DOMAIN csv |-> WithTimestamp(csv[i])]
    IN  [i \in DOMAIN timed |-> [timed[i] EXCEPT !.region = replace(@)]]

\* Variant: rows whose hour index is not in 1..24 are dropped.
load_data_validating(csv) ==
    LET timed == [i \in DOMAIN csv |-> WithTimestamp(csv[i])]
        kept  == SelectSeq(timed, LAMBDA r : /\ ~(r.region \in {YUKJI})
                                            /\ r.trade_hour_index \in 1..24)
    IN  [i \in DOMAIN kept |-> [kept[i] EXCEPT !.region = replace(@)]]

load_data(csv) ==
    LET timed == [i \in DOMAIN csv |-> WithTimestamp(csv[i])]
        kept  == SelectSeq(timed, LAMBDA r : ~(r.region \in {YUKJI}))
    IN  [i \in DOMAIN kept |-> [kept[i] EXCEPT !.region = replace(@)]]

-----------------------------------------------------------------------------
(* Data frames are sequences of records.                                   *)

Column(frame, c) == [i \in DOMAIN frame |-> frame[i][c]]
Unique(frame, c) == Range(Column(frame, c))

\* Variant: .first() instead of .sum().
GroupFirst(rows) == rows[1].volume_mwh

\* ["전력거래량(MWh)"].sum() of one group
GroupSum(rows) == SumSeq(Column(rows, "volume_mwh"))

\* frame.groupby("지역")["전력거래량(MWh)"].sum().reset_index():
\* one row per region of the frame, in sorted order
groupby_region(frame) ==
    LET keys == SortedRegions(Unique(frame, "region"))
    IN  [k \in DOMAIN keys |->
            [region |-> keys[k],
             volume_mwh |->
                GroupSum(SelectSeq(frame, LAMBDA r : r.region = keys[k]))]]

\* frame.groupby([c, "지역"])["전력거래량(MWh)"].sum().reset_index() for the
\* integer column c: one row per (c, region) pair of the frame, sorted
groupby_2(frame, c) ==
    LET ks == SortedInts(Unique(frame, c))
        Of(k) ==
            LET sub == SelectSeq(frame, LAMBDA r : r[c] = k)
                rs  == SortedRegions(Unique(sub, "region"))
            IN  [j \in DOMAIN rs |->
                    (c :> k) @@
                    [region |-> rs[j],
                     volume_mwh |->
                        GroupSum(SelectSeq(sub, LAMBDA r : r.region = rs[j]))]]
    IN  Flatten([i \in DOMAIN ks |-> Of(ks[i])])

\* Variant: how="inner", the unmatched rows of left are dropped.
merge_inner(left, right) ==
    LET Of(l) ==
            LET ms == SelectSeq(right, LAMBDA r : r.region = l.region)
            IN  [j \in DOMAIN ms |-> ms[j] @@ l]
    IN  Flatten([i \in DOMAIN left |-> Of(left[i])])

\* pd.merge(left, right, on="지역", how="left"): every row of left, once per
\* matching row of right; an unmatched row has no value in right's columns
merge_left(left, right) ==
    LET Of(l) ==
            LET ms == SelectSeq(right, LAMBDA r : r.region = l.region)
            IN  IF ms = <<>> THEN <<l>> ELSE [j \in DOMAIN ms |-> ms[j] @@ l]
    IN  Flatten([i \in DOMAIN left |-> Of(left[i])])

\* Variant: how="left" in place of how="right".
merge_right_as_left(left, right) ==
    LET Of(l) ==
            LET ms == SelectSeq(right, LAMBDA r : r.region = l.region)
            IN  IF ms = <<>> THEN <<l>> ELSE [j \in DOMAIN ms |-> ms[j] @@ l]
    IN  Flatten([i \in DOMAIN left |-> Of(left[i])])

\* pd.merge(left, right, on="지역", how="right"): every row of right, once per
\* matching row of left; an unmatched row has no value in left's columns
merge_right(left, right) ==
    LET Of(r) ==
            LET ms == SelectSeq(left, LAMBDA l : l.region = r.region)
            IN  IF ms = <<>> THEN <<r>> ELSE [j \in DOMAIN ms |-> ms[j] @@ r]
    IN  Flatten([i \in DOMAIN right |-> Of(right[i])])

\* .fillna(0) on a frame with the given columns
fillna(frame, columns) ==
    [i \in DOMAIN frame |->
        [c \in columns |-> IF c \in DOMAIN frame[i] THEN frame[i][c] ELSE 0]]

-----------------------------------------------------------------------------
(* main: the widgets.  A widget of the framework keeps the value the user  *)
(* gave it from one run of the script to the next as long as it is created *)
(* with the same options; a widget that is new, or whose options changed,  *)
(* starts at its first option.  A session is the record of one widget:     *)
(* the options it was last shown with and its value.                       *)

NoSession == [options |-> <<>>, value |-> HAPGYE]

\* st.selectbox(label, options) and st.radio(label, options)
selectbox(options, session) ==
    IF session.options = options THEN session.value ELSE options[1]

StrAll(ns) == [i \in DOMAIN ns |-> str(ns[i])]

\* all_regions
all_regions_of(d) ==
    LET rs == SortedRegions(Unique(d, "region"))
    IN  [i \in DOMAIN rs |-> [region |-> rs[i]]]

\* col1: the options of the month selectbox
month_options_of(d) ==
    <<HAPGYE>> \o StrAll(SortedInts(Unique(d, "month")))

\* Variant: the days of the whole dataset, whatever the month.
day_options_all_months(d, selected_month) ==
    <<HAPGYE>> \o StrAll(SortedInts(Unique(d, "day")))

\* col2: the options of the day selectbox for a concrete month
day_options_of(d, selected_month) ==
    <<HAPGYE>> \o
    StrAll(SortedInts(Unique(
        SelectSeq(d, LAMBDA r : r.month = selected_month), "day")))

\* Variant: with the aggregate month the day selectbox is shown with the days
\* of the whole dataset.
col2_always_shown(d, m_selected, session) ==
    LET opts == IF m_selected = HAPGYE
                THEN <<HAPGYE>> \o StrAll(SortedInts(Unique(d, "day")))
                ELSE day_options_of(d, int(m_selected))
    IN  [options |-> opts, selected |-> selectbox(opts, session)]

\* col2: the day selectbox, shown for a concrete month only
col2(d, m_selected, session) ==
    IF m_selected = HAPGYE
    THEN [options |-> <<>>, selected |-> HAPGYE]
    ELSE LET opts == day_options_of(d, int(m_selected))
         IN  [options |-> opts, selected |-> selectbox(opts, session)]

\* col3: the options of the hour selectbox for a concrete month and day
hour_options_of(d, selected_month, selected_day) ==
    <<HAPGYE>> \o
    StrAll(SortedInts(Unique(
        SelectSeq(d, LAMBDA r : r.month = selected_month
                                /\ r.day = selected_day), "hour")))

\* col3: the hour selectbox, shown for a concrete month and day only
col3(d, m_selected, d_selected, session) ==
    IF m_selected = HAPGYE \/ d_selected = HAPGYE
    THEN [options |-> <<>>, selected |-> HAPGYE]
    ELSE LET opts == hour_options_of(d, int(m_selected), int(d_selected))
         IN  [options |-> opts, selected |-> selectbox(opts, session)]

source_options == <<TAEYANGGWANG, PUNGNYEOK, HAPGYE>>

-----------------------------------------------------------------------------
(* main: filtering and the three views *)

filter(d, m_selected, d_selected, h_selected, s_selected) ==
    LET Eq(frame, c, n) == SelectSeq(frame, LAMBDA r : r[c] = n)
        f1 == IF m_selected # HAPGYE
              THEN Eq(d, "month", int(m_selected)) ELSE d
        f2 == IF d_selected # HAPGYE
              THEN Eq(f1, "day", int(d_selected)) ELSE f1
        f3 == IF h_selected # HAPGYE
              THEN Eq(f2, "hour", int(h_selected)) ELSE f2
    IN  IF s_selected # HAPGYE
        THEN SelectSeq(f3, LAMBDA r : r.fuel_type = s_selected) ELSE f3

\* view (a)
df_map_of(all_regions, f) ==
    fillna(merge_left(all_regions, groupby_region(f)),
           {"region", "volume_mwh"})

\* view (b)
df_line_of(f) == groupby_2(f, "timestamp")

\* view (c)
df_anim_of(all_regions, f) ==
    fillna(merge_right(all_regions, groupby_2(f, "hour")),
           {"region", "hour", "volume_mwh"})

\* One run of the script on the cached dataset d with the widget sessions w.
main(d, w) ==
    \E all_regions \in {all_regions_of(d)}, m_options \in {month_options_of(d)} :
    \E m_selected \in {selectbox(m_options, w.month)} :
    \E c2 \in {col2(d, m_selected, w.day)} :
    \E c3 \in {col3(d, m_selected, c2.selected, w.hour)} :
    \E s_selected \in {selectbox(source_options, w.source)} :
    \E f \in {filter(d, m_selected, c2.selected, c3.selected, s_selected)} :
        /\ month_options' = m_options
        /\ month_selected' = m_selected
        /\ day_options' = c2.options
        /\ day_selected' = c2.selected
        /\ hour_options' = c3.options
        /\ hour_selected' = c3.selected
        /\ source_selected' = s_selected
        /\ dff' = f
        /\ df_map' = df_map_of(all_regions, f)
        /\ df_line' = df_line_of(f)
        /\ anim_shown' = (c3.selected = HAPGYE)
        /\ df_anim' = IF c3.selected = HAPGYE
                      THEN df_anim_of(all_regions, f) ELSE <<>>

\* The sessions of the widgets as the last run left them.
Sessions ==
    [month  |-> [options |-> month_options, value |-> month_selected],
     day    |-> [options |-> day_options, value |-> day_selected],
     hour   |-> [options |-> hour_options, value |-> hour_selected],
     source |-> [options |-> source_options, value |-> source_selected]]

-----------------------------------------------------------------------------
(* The input files *)

MaxRows == 2        \* rows of a file of Spec
MaxFileRows == 2    \* rows of a file of SpecLoad

\* The volume of the i-th row of a file.  The volumes are pairwise different
\* and no two sets of them have the same sum, so a total tells which rows it
\* adds.
RowVolume(i) == IF i = 1 THEN 10 ELSE IF i = 2 THEN 5 ELSE 20 * (i - 2)

\* The files of at most n rows whose rows, the volume apart, are drawn from R.
Files(R, n) ==
    {[i \in DOMAIN f |-> f[i] @@ [volume_mwh |-> RowVolume(i)]] :
        f \in UNION {[1..k -> R] : k \in 0..n}}

\* Spec: all rows are traded on the leap day.  The hour indexes 0 and 25 are
\* outside 1..24, so the timestamps fall on 28 February 23:00, 29 February
\* 00:00 and 1 March 00:00.
Rows ==
    [trade_date : {[year |-> 2024, month |-> 2, day |-> 29]},
     trade_hour_index : {0, 1, 25},
     region : {"Seoul-si", "Seoul-teukbyeolsi", "Jeju"},
     fuel_type : {TAEYANGGWANG, PUNGNYEOK}]

\* SpecLoad: the loader's cases.  Dates at the end of a month, of February in
\* a leap year and of the year; hour indexes inside and outside 1..24; regions
\* that are a key of region_mapping, canonical, unmapped and the sentinel.
LoadRows ==
    [trade_date : {[year |-> 2024, month |-> 2, day |-> 29],
                   [year |-> 2024, month |-> 12, day |-> 31]},
     trade_hour_index : {0, 1, 24, 25},
     region : {"Seoul-si", "Seoul-teukbyeolsi", "Jeju-do", "Gyeonggi-do", YUKJI},
     fuel_type : {TAEYANGGWANG}]

-----------------------------------------------------------------------------
(* The state machine *)

InitOn(files) ==
    /\ raw \in files
    /\ loaded = FALSE
    /\ df = <<>>
    /\ month_options = <<>>
    /\ day_options = <<>>
    /\ hour_options = <<>>
    /\ month_selected = HAPGYE
    /\ day_selected = HAPGYE
    /\ hour_selected = HAPGYE
    /\ source_selected = HAPGYE
    /\ dff = <<>>
    /\ df_map = <<>>
    /\ df_line = <<>>
    /\ anim_shown = FALSE
    /\ df_anim = <<>>

\* The first run of the script: load_data reads the file, every widget is new.
FirstRun ==
    /\ ~loaded
    /\ loaded' = TRUE
    /\ \E d \in {load_data(raw)} :
        /\ df' = d
        /\ main(d, [month |-> NoSession, day |-> NoSession,
                    hour |-> NoSession, source |-> NoSession])
    /\ UNCHANGED raw

\* The user picks another month; the script runs again.
SelectMonth(v) ==
    /\ loaded
    /\ v \in Range(month_options) /\ v # month_selected
    /\ main(df, [Sessions EXCEPT !.month.value = v])
    /\ UNCHANGED <<raw, loaded, df>>

\* The user picks another day; the script runs again.
SelectDay(v) ==
    /\ loaded
    /\ v \in Range(day_options) /\ v # day_selected
    /\ main(df, [Sessions EXCEPT !.day.value = v])
    /\ UNCHANGED <<raw, loaded, df>>

\* The user picks another hour; the script runs again.
SelectHour(v) ==
    /\ loaded
    /\ v \in Range(hour_options) /\ v # hour_selected
    /\ main(df, [Sessions EXCEPT !.hour.value = v])
    /\ UNCHANGED <<raw, loaded, df>>

\* The user picks another source; the script runs again.
SelectSource(v) ==
    /\ loaded
    /\ v \in Range(source_options) /\ v # source_selected
    /\ main(df, [Sessions EXCEPT !.source.value = v])
    /\ UNCHANGED <<raw, loaded, df>>

Next ==
    \/ FirstRun
    \/ \E v \in Range(month_options) : SelectMonth(v)
    \/ \E v \in Range(day_options) : SelectDay(v)
    \/ \E v \in Range(hour_options) : SelectHour(v)
    \/ \E v \in Range(source_options) : SelectSource(v)

Init == InitOn(Files(Rows, MaxRows))
Spec == Init /\ [][Next]_vars

\* The loader and the first run of the script on the loader's files.
InitLoad == InitOn(Files(LoadRows, MaxFileRows))
NextLoad == FirstRun
SpecLoad == InitLoad /\ [][NextLoad]_vars

-----------------------------------------------------------------------------
(* Vocabulary of the properties, stated on the state and not through the   *)
(* operators of main.                                                      *)

\* AllRegions: the distinct regions of the loaded dataset
AllRegions == {df[i].region : i \in DOMAIN df}

\* The record r passes the four current selections.
Matches(r) ==
    /\ month_selected = HAPGYE \/ str(r.month) = month_selected
    /\ day_selected = HAPGYE \/ str(r.day) = day_selected
    /\ hour_selected = HAPGYE \/ str(r.hour) = hour_selected
    /\ source_selected = HAPGYE \/ r.fuel_type = source_selected

Matching == {i \in DOMAIN df : Matches(df[i])}

RECURSIVE VolumeOf(_)
\* the sum of volume_mwh over the records of df with an index in I
VolumeOf(I) ==
    IF I = {} THEN 0
    ELSE LET i == CHOOSE j \in I : TRUE
         IN  df[i].volume_mwh + VolumeOf(I \ {i})

\* The indexes of the rows of the file that do not carry the sentinel, in file
\* order: row j of the loaded dataset comes from row Kept[j] of the file.
Kept == SelectSeq([i \in DOMAIN raw |-> i], LAMBDA i : raw[i].region # YUKJI)

\* The canonical form of a raw region name.
Canonical(v) ==
    IF \E k \in DOMAIN region_mapping : k = v THEN region_mapping[v] ELSE v

\* The calendar, day by day.
DaysInMonth(y, m) ==
    IF m = 2
    THEN (IF (y % 4 = 0 /\ y % 100 # 0) \/ y % 400 = 0 THEN 29 ELSE 28)
    ELSE IF m \in {4, 6, 9, 11} THEN 30 ELSE 31

NextDay(c) ==
    IF c.day < DaysInMonth(c.year, c.month)
    THEN [c EXCEPT !.day = @ + 1]
    ELSE IF c.month < 12
         THEN [c EXCEPT !.month = @ + 1, !.day = 1]
         ELSE [year |-> c.year + 1, month |-> 1, day |-> 1]

PrevDay(c) ==
    IF c.day > 1
    THEN [c EXCEPT !.day = @ - 1]
    ELSE IF c.month > 1
         THEN [c EXCEPT !.month = @ - 1, !.day = DaysInMonth(c.year, c.month - 1)]
         ELSE [year |-> c.year - 1, month |-> 12, day |-> 31]

RECURSIVE AddDays(_, _)
AddDays(c, n) ==
    IF n = 0 THEN c
    ELSE IF n > 0 THEN AddDays(NextDay(c), n - 1)
    ELSE AddDays(PrevDay(c), n + 1)

-----------------------------------------------------------------------------
(* C1 *)

\* C1: for every dataset and every combination of the four selections, view
\* (a) has exactly one row per region of AllRegions and no other row; when no
\* record matches the selections every row has volume 0.
C1_OneRowPerRegion ==
    loaded =>
        /\ \A r \in AllRegions :
              Cardinality({i \in DOMAIN df_map : df_map[i].region = r}) = 1
        /\ \A i \in DOMAIN df_map : df_map[i].region \in AllRegions
        /\ Matching = {} => \A i \in DOMAIN df_map : df_map[i].volume_mwh = 0

\* Two regions are loaded, the selections match no record: both rows are 0.
C1_Witness ==
    /\ loaded
    /\ Cardinality(AllRegions) = 2
    /\ Matching = {}
    /\ Len(df_map) = 2
    /\ \A i \in DOMAIN df_map : df_map[i].volume_mwh = 0

-----------------------------------------------------------------------------
(* C2 *)

\* C2: the volumes of view (a) add up to the sum of volume_mwh over the
\* records that pass the selections.
C2_Conservation ==
    loaded => SumSeq(Column(df_map, "volume_mwh")) = VolumeOf(Matching)

\* Two records of two regions, one passes the selections and the other does
\* not: view (a) has the volume of the first and a row of 0 for the second.
C2_Witness ==
    /\ loaded
    /\ \E i, j \in DOMAIN df :
          /\ i \in Matching /\ j \notin Matching
          /\ df[i].region # df[j].region
          /\ SumSeq(Column(df_map, "volume_mwh")) = df[i].volume_mwh
          /\ \E k \in DOMAIN df_map :
                df_map[k].region = df[j].region /\ df_map[k].volume_mwh = 0

-----------------------------------------------------------------------------
(* C3 *)

\* C3: no record of the loaded dataset has a region that is a key of
\* region_mapping; every record carries the canonical form of the name its
\* file row has, so that the rows of the name variants of one province are
\* counted in one row of view (a).
C3_Normalised ==
    loaded =>
        /\ \A j \in DOMAIN df : df[j].region \notin DOMAIN region_mapping
        /\ \A j \in DOMAIN df : df[j].region = Canonical(raw[Kept[j]].region)
        /\ \A i \in DOMAIN df_map :
              df_map[i].volume_mwh =
                  VolumeOf({j \in Matching :
                      Canonical(raw[Kept[j]].region) = df_map[i].region})

\* The example of the specification: "서울시" with volume 10 and "서울특별시"
\* with volume 5 at the same hour and of the same source, month and day
\* concrete, hour aggregate, source solar: one row, "서울특별시" = 15.
C3_Witness ==
    /\ loaded
    /\ Len(raw) = 2
    /\ raw[1].region = "Seoul-si" /\ raw[1].volume_mwh = 10
    /\ raw[2].region = "Seoul-teukbyeolsi" /\ raw[2].volume_mwh = 5
    /\ month_selected # HAPGYE /\ day_selected # HAPGYE
    /\ hour_selected = HAPGYE /\ source_selected = TAEYANGGWANG
    /\ df_map = <<[region |-> "Seoul-teukbyeolsi", volume_mwh |-> 15]>>

-----------------------------------------------------------------------------
(* C4 *)

\* C4: the sentinel "육지" is the region of no record of the loaded dataset,
\* however many rows of the file carry it, and it is in none of the views.
C4_NoSentinel ==
    /\ \A j \in DOMAIN df : df[j].region # YUKJI
    /\ YUKJI \notin AllRegions
    /\ \A i \in DOMAIN df_map : df_map[i].region # YUKJI
    /\ \A i \in DOMAIN df_line : df_line[i].region # YUKJI
    /\ \A i \in DOMAIN df_anim : df_anim[i].region # YUKJI

\* The file has a sentinel row and another row; the views show the other.
C4_Witness ==
    /\ loaded
    /\ \E i, j \in DOMAIN raw : raw[i].region = YUKJI /\ raw[j].region # YUKJI
    /\ Len(df) = 1 /\ Len(df_map) = 1 /\ Len(df_line) = 1 /\ Len(df_anim) = 1

-----------------------------------------------------------------------------
(* C5 *)

\* C5: for every row of the loaded dataset the timestamp is the trade date
\* plus (trade_hour_index - 1) hours, and month, day and hour are those of the
\* timestamp: of the calendar day that lies floor((trade_hour_index - 1) / 24)
\* days from the trade date, at hour (trade_hour_index - 1) mod 24.
C5_Timestamp ==
    \A j \in DOMAIN df :
        LET r == df[j]
            h == r.trade_hour_index - 1
            c == AddDays(r.trade_date, h \div 24)
        IN  /\ r.trade_date = raw[Kept[j]].trade_date
            /\ r.trade_hour_index = raw[Kept[j]].trade_hour_index
            /\ r.timestamp - to_datetime(r.trade_date) = h
            /\ r.timestamp = to_datetime(c) + (h % 24)
            /\ r.month = c.month /\ r.day = c.day /\ r.hour = h % 24

\* A row whose timestamp lies in another month than its trade date.
C5_Witness ==
    /\ loaded
    /\ \E j \in DOMAIN df :
          /\ df[j].trade_date = [year |-> 2024, month |-> 2, day |-> 29]
          /\ df[j].trade_hour_index = 25
          /\ df[j].month = 3 /\ df[j].day = 1 /\ df[j].hour = 0

-----------------------------------------------------------------------------
(* C6 *)

\* C6: after any sequence of selection changes the selections the filter uses
\* are consistent: day is aggregate when month is; hour is aggregate when
\* month or day is; a concrete day is a day of a record of the selected month;
\* a concrete hour is an hour of a record of the selected month and day; and
\* every option offered by the day and hour selectors is valid under the
\* current upstream selection.
C6_Cascade ==
    LET InMonth == {i \in DOMAIN df : str(df[i].month) = month_selected}
        InDay == {i \in InMonth : str(df[i].day) = day_selected}
    IN  loaded =>
        /\ month_selected = HAPGYE => day_selected = HAPGYE
        /\ (month_selected = HAPGYE \/ day_selected = HAPGYE)
              => hour_selected = HAPGYE
        /\ day_selected # HAPGYE
              => \E i \in InMonth : str(df[i].day) = day_selected
        /\ hour_selected # HAPGYE
              => \E i \in InDay : str(df[i].hour) = hour_selected
        /\ \A v \in Range(day_options) \ {HAPGYE} :
              \E i \in InMonth : str(df[i].day) = v
        /\ \A v \in Range(hour_options) \ {HAPGYE} :
              \E i \in InDay : str(df[i].hour) = v
        /\ day_selected \in Range(day_options) \cup {HAPGYE}
        /\ hour_selected \in Range(hour_options) \cup {HAPGYE}

\* Month, day and hour are concrete, and the dataset has a day in another
\* month that the selected month does not have.
C6_Witness ==
    /\ loaded
    /\ month_selected # HAPGYE /\ day_selected # HAPGYE
    /\ hour_selected # HAPGYE
    /\ \E i \in DOMAIN df :
          /\ str(df[i].month) # month_selected
          /\ \A j \in DOMAIN df :
                str(df[j].month) = month_selected => df[j].day # df[i].day

-----------------------------------------------------------------------------
(* C7 *)

\* C7 as claimed: when the month selection changes from a concrete month to
\* aggregate, the day and hour selectors offer the days and hours of the whole
\* dataset.
C7_Claimed ==
    [][(month_selected # HAPGYE /\ month_selected' = HAPGYE) =>
          /\ day_options' =
                <<HAPGYE>> \o StrAll(SortedInts({df[i].day : i \in DOMAIN df}))
          /\ hour_options' =
                <<HAPGYE>> \o StrAll(SortedInts({df[i].hour : i \in DOMAIN df}))
      ]_vars

\* C7 (amended): when the month selection changes from a concrete month to
\* aggregate, the day and hour selectors are not shown, so they offer no
\* option, and the day and hour selections are aggregate: the filter spans
\* the whole dataset in time.
C7_Reset ==
    [][(month_selected # HAPGYE /\ month_selected' = HAPGYE) =>
          /\ day_options' = <<>> /\ hour_options' = <<>>
          /\ day_selected' = HAPGYE /\ hour_selected' = HAPGYE
          /\ \A i \in DOMAIN df :
                (source_selected' = HAPGYE \/ df[i].fuel_type = source_selected')
                    => df[i] \in Range(dff')
      ]_vars

\* Month, day and hour are concrete, and the month can be changed to
\* aggregate.
C7_Witness ==
    /\ loaded
    /\ month_selected # HAPGYE /\ day_selected # HAPGYE
    /\ hour_selected # HAPGYE
    /\ ENABLED SelectMonth(HAPGYE)

-----------------------------------------------------------------------------
(* C8 *)

\* C8: view (c) is computed exactly when the hour selection is aggregate; when
\* computed it has, for every hour of a matching record and every region of
\* AllRegions, a row with the summed volume of the matching records of that
\* hour and region, which is 0 when there is none.
C8_Claimed ==
    loaded =>
        /\ anim_shown <=> hour_selected = HAPGYE
        /\ anim_shown =>
              \A h \in {df[i].hour : i \in Matching} : \A r \in AllRegions :
                  \E k \in DOMAIN df_anim :
                      /\ df_anim[k].hour = h /\ df_anim[k].region = r
                      /\ df_anim[k].volume_mwh =
                            VolumeOf({i \in Matching :
                                df[i].hour = h /\ df[i].region = r})

-----------------------------------------------------------------------------
(* C9 *)

-----------------------------------------------------------------------------
(* C10 *)

====
